---- MODULE Spec2Model ----
(***************************************************************************)
(* Project Evolution: the generational evolution controller (evolver.rs),  *)
(* the per-creature simulation as far as the controller reads it           *)
(* (simulation.rs) and the creature builder (creature.rs).                 *)
(*                                                                         *)
(* Durations are integers in units of 1/NANOS_PER_SECOND second.  f32      *)
(* values are integers plus the value NaN; rounding is not modelled.       *)
(* Uuid::new_v4() is a fresh number taken from the counter next_uuid.      *)
(* The rapier physics pipeline is outside the repository: one pipeline     *)
(* step may move every node body to any coordinate of XCoords.             *)
(***************************************************************************)
EXTENDS Integers, Sequences, FiniteSets, TLC

(***************************************************************************)
(* Bounds of the model.  The source values are given where a bound scales  *)
(* a program constant down.                                                *)
(***************************************************************************)
\* simulation.rs:10 has 60 steps per second
STEPS_PER_SECOND == 1
\* simulation.rs:11 has 1_000_000_000 nanoseconds per second
NANOS_PER_SECOND == 2
\* evolver.rs:11 simulates a generation for 15 seconds
SECONDS_PER_GENERATION == 3
\* evolver.rs:12 shows the evolution for 5 seconds
SECONDS_PER_EVOLUTION == 2
\* evolver.rs:10 has 100 simulations, that is 50 parents of 2 offspring each
NumParents == 1
\* node bodies of one simulated creature (creature.rs:23 has at least 3)
NumBodies == 2
\* the longest elapsed time handed to one call of run
MaxElapsed == 5
\* run is not called any more once this generation is reached
MaxGeneration == 3
\* the total elapsed time handed to run in the time-slicing specification
MaxTotal == 9
\* no Uuid beyond this one is created in the builder specification
MaxUuid == 12
\* nodes that CreatureBuilder::random adds to BASE_RANDOM_NODES
MaxExtraNodes == 0
\* nodes of a builder that add_node still adds to
MaxNodes == 2
\* muscles of a builder that add_muscle still adds to
MaxMuscles == 1
\* translate leaves every coordinate at or below this one
MaxCoord == 10
\* nodes and muscles of a creature that is simulated, and the steps it is stepped
MaxSimNodes == 3
MaxSimMuscles == 1
MaxSimSteps == 2
\* the largest coordinate of a position a distance is taken from
MaxDistanceCoord == 5
\* x coordinates and whole scores up to this far from the spawn line are converted
MaxOffCentre == 3
\* simulator.rs:9 has 60 steps per second; the ranges of the schedule scale with it
SIMULATOR_STEPS_PER_SECOND == 2
\* the largest step counter a schedule is evaluated at
MaxStep == 130

\* muscle lengths 0..MaxMuscleLength
MaxMuscleLength == 2

(***************************************************************************)
(* Program constants                                                       *)
(***************************************************************************)
OFFSPRING_PER_CREATURE == 2
BASE_RANDOM_NODES == 3
SIMULATIONS_PER_GENERATION == OFFSPRING_PER_CREATURE * NumParents
STEPS_PER_GENERATION == STEPS_PER_SECOND * SECONDS_PER_GENERATION
STEPS_PER_EVOLUTION == STEPS_PER_SECOND * SECONDS_PER_EVOLUTION
STEPS_FREQUENCY == NANOS_PER_SECOND \div STEPS_PER_SECOND
WORLD_X_SIZE == 1000
WORLD_Y_SIZE == 560
FLOOR_TOP_Y == WORLD_Y_SIZE - WORLD_Y_SIZE \div 10
SCORE_PER_SCREEN == 10
HUE_MODULUS == 360
MUTATE_COLOR_HUE_MAX == 10

\* the f32 value NaN and the outcome "the thread panicked", both outside every
\* coordinate and score of the model
NaN == WORLD_X_SIZE * WORLD_X_SIZE
PANIC == NaN + 1
\* x coordinates the physics pipeline may give a node body
XCoords == {WORLD_X_SIZE \div 2, WORLD_X_SIZE \div 2 + 100}

VARIABLES
    current_generation,  \* Evolver.current_generation: Seq of Simulation
    on_generation,       \* Evolver.on_generation
    generation_scores,   \* Evolver.generation_scores
    time_left_over,      \* Evolver.time_left_over
    state,               \* Evolver.state: [variant, steps_left]
    pc,                  \* "idle" between calls of run, "run" inside its loop, "panicked"
    time,                \* the local variable time of run
    next_uuid,           \* the next fresh Uuid
    call,                \* history: [total, steps] of the call of run in progress: its
                         \* elapsed argument plus the carried remainder, and its steps so far
    base,                \* history: the clock the Evolver started from
    sum,                 \* history: total elapsed time handed to run since base
    ticks,               \* history: total steps of the state machine since base
    builder,             \* the CreatureBuilder in the caller's hands (id 0: none)
    creature,            \* the Creature built last (id 0: none)
    parent_creature,     \* history: the Creature handed to the latest call of mutate
    offspring,           \* history: the builder the latest call of mutate returned
    sibling_ids,         \* history: the Uuids earlier calls mutate(parent_creature) created
    simulation,          \* the Simulation a caller built from creature (creature id 0: none)
    calc,                \* the call of a function in progress: its arguments and result
    added                \* history: the nodes and muscles handed to add_node and add_muscle
                         \* of the builder made by new()

vars == <<current_generation, on_generation, generation_scores, time_left_over,
          state, pc, time, next_uuid, call, base, sum, ticks,
          builder, creature, parent_creature, offspring, sibling_ids, simulation, calc, added>>

\* what Evolver::run leaves alone
builder_vars == <<builder, creature, parent_creature, offspring, sibling_ids,
                  simulation, calc, added>>

evolver_vars == <<current_generation, on_generation, generation_scores,
                  time_left_over, state>>

----------------------------------------------------------------------------
(* util.rs, simulation.rs: scores *)

IsNaN(a) == a = NaN

\* util::cmp_f32: a.partial_cmp(b).expect("NAN!")
cmp_f32(a, b) ==
    IF IsNaN(a) \/ IsNaN(b) THEN "panic"
    ELSE IF a < b THEN "Less" ELSE IF a > b THEN "Greater" ELSE "Equal"

\* Iterator::max_by(cmp_f32) over a sequence: a fold that keeps the later of equal elements
RECURSIVE max_by_from(_, _, _)
max_by_from(s, i, acc) ==
    IF i > Len(s) THEN acc
    ELSE LET c == cmp_f32(acc, s[i]) IN
         IF c = "panic" THEN PANIC
         ELSE max_by_from(s, i + 1, IF c = "Greater" THEN acc ELSE s[i])

max_by(s) == max_by_from(s, 2, s[1])

\* Iterator::min_by(cmp_f32): keeps the earlier of equal elements
RECURSIVE min_by_from(_, _, _)
min_by_from(s, i, acc) ==
    IF i > Len(s) THEN acc
    ELSE LET c == cmp_f32(acc, s[i]) IN
         IF c = "panic" THEN PANIC
         ELSE min_by_from(s, i + 1, IF c = "Greater" THEN s[i] ELSE acc)

min_by(s) == min_by_from(s, 2, s[1])

\* Simulation::get_bounds: <<x_min, y_min, x_max, y_max>>, PANIC where an unwrap
\* of cmp_f32 failed
get_bounds(sim) ==
    LET xs == [i \in 1..Len(sim.bodies) |-> sim.bodies[i].x]
        ys == [i \in 1..Len(sim.bodies) |-> sim.bodies[i].y]
    IN <<min_by(xs), min_by(ys), max_by(xs), max_by(ys)>>

\* Simulation::x_to_score, in units of 1/WORLD_X_SIZE
x_to_score(x) == IF IsNaN(x) THEN NaN ELSE (x - WORLD_X_SIZE \div 2) * SCORE_PER_SCREEN

\* Simulation::score_to_x, of a score in units of 1/WORLD_X_SIZE
score_to_x(score) == score \div SCORE_PER_SCREEN + WORLD_X_SIZE \div 2

\* get_score reading the top left corner of the bounds
get_score_TopLeft(sim) ==
    LET b == get_bounds(sim)
    IN IF \E i \in 1..4 : b[i] = PANIC THEN PANIC ELSE x_to_score(b[1])

\* Simulation::get_score
get_score(sim) ==
    LET b == get_bounds(sim)
    IN IF \E i \in 1..4 : b[i] = PANIC THEN PANIC ELSE x_to_score(b[3])

\* f32::total_cmp(a, b) <= 0; a (positive) NaN is above every number
total_le(a, b) == IF IsNaN(b) THEN TRUE ELSE IF IsNaN(a) THEN FALSE ELSE a <= b

----------------------------------------------------------------------------
(* simulation.rs: a Simulation as the Evolver reads it *)

Bodies == [1..NumBodies -> [x : XCoords, y : {FLOOR_TOP_Y}]]

\* Simulation::new: the creature, its node bodies at their spawn positions, steps = 0
SimulationNew(c, bodies) ==
    [creature |-> c, bodies |-> bodies, steps |-> 0]

\* Simulation::step: the pipeline moves the bodies, then steps += 1
SimulationStep(sim, moved) ==
    [sim EXCEPT !.bodies = moved, !.steps = sim.steps + 1]

----------------------------------------------------------------------------
(* creature.rs: Creature and CreatureBuilder *)

\* HashMap::new and HashMap::insert
EmptyMap == [k \in {} |-> 0]
MapPut(m, k, v) == [x \in DOMAIN m \cup {k} |-> IF x = k THEN v ELSE m[x]]

\* the keys of a HashMap in the order its iterator yields them (here: ascending)
RECURSIVE KeysFrom(_, _)
KeysFrom(keys, acc) ==
    IF keys = {} THEN acc
    ELSE LET k == CHOOSE k \in keys : \A j \in keys : k <= j
         IN KeysFrom(keys \ {k}, Append(acc, k))

Keys(m) == KeysFrom(DOMAIN m, <<>>)

\* Option
None == [some |-> FALSE, v |-> 0]
Some(v) == [some |-> TRUE, v |-> v]

\* Position::new, Node::new, Muscle::new
Position(x, y) == [x |-> x, y |-> y]
Node(id, position, size) == [id |-> id, position |-> position, size |-> size]
Muscle(id, from_id, to_id) == [id |-> id, from_id |-> from_id, to_id |-> to_id]

\* f32::sqrt on the squares the model meets
Sqrt(n) == CHOOSE r \in 0..n : r * r <= n /\ n < (r + 1) * (r + 1)

\* distance_to with the sum of the y coordinates in place of their difference
distance_to_SumY(a, b) == Sqrt((a.x - b.x) * (a.x - b.x) + (a.y + b.y) * (a.y + b.y))

\* Position::distance_to (position.rs:27-29)
distance_to(a, b) == Sqrt((a.x - b.x) * (a.x - b.x) + (a.y - b.y) * (a.y - b.y))

\* what the random number generator may return
Placements == {[position |-> Position(0, 0), size |-> 10],
               [position |-> Position(6, 8), size |-> 20]}
Hues == {350}
HueDeltas == {0 - 10, 10}

\* a Uuid that names nothing
NoId == 0

\* CreatureColors::mutate (creature_colors.rs:46-51): (hue as i16 + delta) as u16 % 360
colors_mutate(hue, delta) == ((hue + delta) % 65536) % 360

\* MovementParameters::generate_for_muscles_and_nodes (movement_parameters.rs:42-76);
\* of a schedule the model keeps the muscle length
generate_panics(muscles, nodes) ==
    \E id \in DOMAIN muscles :
        muscles[id].from_id \notin DOMAIN nodes \/ muscles[id].to_id \notin DOMAIN nodes

generate_for_muscles_and_nodes(muscles, nodes) ==
    [id \in DOMAIN muscles |->
        [muscle_length |-> distance_to(nodes[muscles[id].from_id].position,
                                       nodes[muscles[id].to_id].position)]]

\* MovementParameters::mutate: the muscle length is kept
parameters_mutate(parameters) == [muscle_length |-> parameters.muscle_length]

NoBuilder ==
    [id |-> NoId, nodes |-> EmptyMap, muscles |-> EmptyMap,
     movement_parameters |-> None, colors |-> None]

\* nothing handed to add_node or add_muscle yet
NothingAdded == [nodes |-> {}, muscles |-> {}]

NoCreature ==
    [id |-> NoId, nodes |-> EmptyMap, muscles |-> EmptyMap,
     movement_parameters |-> EmptyMap, colors |-> 0]

\* CreatureBuilder::new (creature.rs:77-85)
builder_new(uuid) == [NoBuilder EXCEPT !.id = uuid]

\* add_node replacing the nodes added before
add_node_Alone(b, node) == [b EXCEPT !.nodes = MapPut(EmptyMap, node.id, node)]

\* CreatureBuilder::add_node (creature.rs:179-183)
add_node(b, node) == [b EXCEPT !.nodes = MapPut(@, node.id, node)]

\* CreatureBuilder::add_muscle (creature.rs:186-190)
add_muscle(b, muscle) == [b EXCEPT !.muscles = MapPut(@, muscle.id, muscle)]

\* CreatureBuilder::add_movement_parameters (creature.rs:193-200)
add_movement_parameters(b, movement_parameters) ==
    [b EXCEPT !.movement_parameters = Some(movement_parameters)]

\* CreatureBuilder::add_colors (creature.rs:203-207)
add_colors(b, colors) == [b EXCEPT !.colors = Some(colors)]

\* CreatureBuilder::get_bounds (creature.rs:210-224): <<x_min, y_min, x_max, y_max>>
builder_get_bounds(b) ==
    LET keys == Keys(b.nodes)
        xs == [i \in 1..Len(keys) |-> b.nodes[keys[i]].position.x]
        ys == [i \in 1..Len(keys) |-> b.nodes[keys[i]].position.y]
    IN <<min_by(xs), min_by(ys), max_by(xs), max_by(ys)>>

\* CreatureBuilder::translate (creature.rs:227-234)
translate(b, x, y) ==
    [b EXCEPT !.nodes =
        [id \in DOMAIN b.nodes |->
            [b.nodes[id] EXCEPT !.position =
                Position(b.nodes[id].position.x + x, b.nodes[id].position.y + y)]]]

\* CreatureBuilder::translate_bottom_center_to (creature.rs:249-256); the unwrap in
\* get_bounds panics when there is no node
translate_bottom_center_panics(b) == DOMAIN b.nodes = {}

translate_bottom_center_to(b, position) ==
    LET bounds == builder_get_bounds(b)
        translate_x == position.x - ((bounds[1] + bounds[3]) \div 2)
        translate_y == position.y - bounds[4]
    IN translate(b, translate_x, translate_y)

\* CreatureBuilder::build (creature.rs:259-273)
build_panics(b) ==
    ~b.movement_parameters.some /\ generate_panics(b.muscles, b.nodes)

build(b, hue) ==
    [id |-> b.id,
     nodes |-> b.nodes,
     muscles |-> b.muscles,
     movement_parameters |->
        IF b.movement_parameters.some THEN b.movement_parameters.v
        ELSE generate_for_muscles_and_nodes(b.muscles, b.nodes),
     colors |-> IF b.colors.some THEN b.colors.v ELSE hue]

\* the loop over the pairs of nodes of CreatureBuilder::random (creature.rs:110-128):
\* the (from, to) pairs, as indices into the iteration order, that get a muscle;
\* connect[<<from, to>>] is the outcome of the draw for the pair
RECURSIVE PairLoop(_, _, _, _, _)
PairLoop(n, connect, k, tested, muscles) ==
    IF k > n * n THEN muscles
    ELSE LET from == ((k - 1) \div n) + 1
             to == ((k - 1) % n) + 1
         IN IF from = to \/ <<to, from>> \in tested
            THEN PairLoop(n, connect, k + 1, tested, muscles)
            ELSE IF ~connect[<<from, to>>]
            THEN PairLoop(n, connect, k + 1, tested, muscles)
            ELSE PairLoop(n, connect, k + 1, tested \cup {<<from, to>>},
                          Append(muscles, <<from, to>>))

\* the same loop (creature.rs:114-127): the (from, to) pairs for which it reaches
\* rng.gen::<f32>() (creature.rs:120), in the order of the draws
RECURSIVE PairDraws(_, _, _, _, _)
PairDraws(n, connect, k, tested, draws) ==
    IF k > n * n THEN draws
    ELSE LET from == ((k - 1) \div n) + 1
             to == ((k - 1) % n) + 1
         IN IF from = to \/ <<to, from>> \in tested
            THEN PairDraws(n, connect, k + 1, tested, draws)
            ELSE IF ~connect[<<from, to>>]
            THEN PairDraws(n, connect, k + 1, tested, Append(draws, <<from, to>>))
            ELSE PairDraws(n, connect, k + 1, tested \cup {<<from, to>>},
                           Append(draws, <<from, to>>))

\* random with both ends of every muscle at the from node
random_SelfLoop(uuid, n, place, connect) ==
    LET pairs == PairLoop(n, connect, 1, {}, <<>>)
    IN [NoBuilder EXCEPT
          !.id = uuid,
          !.nodes = [id \in (uuid + 1)..(uuid + n) |->
                        Node(id, place[id - uuid].position, place[id - uuid].size)],
          !.muscles = [id \in (uuid + n + 1)..(uuid + n + Len(pairs)) |->
                          Muscle(id, uuid + pairs[id - uuid - n][1],
                                     uuid + pairs[id - uuid - n][1])]]

\* CreatureBuilder::random (creature.rs:88-135): n nodes placed by place, Uuids from
\* uuid on: the builder, the nodes, then the muscles
random(uuid, n, place, connect) ==
    LET pairs == PairLoop(n, connect, 1, {}, <<>>)
    IN [NoBuilder EXCEPT
          !.id = uuid,
          !.nodes = [id \in (uuid + 1)..(uuid + n) |->
                        Node(id, place[id - uuid].position, place[id - uuid].size)],
          !.muscles = [id \in (uuid + n + 1)..(uuid + n + Len(pairs)) |->
                          Muscle(id, uuid + pairs[id - uuid - n][1],
                                     uuid + pairs[id - uuid - n][2])]]

\* the new muscle of mutate with the ids of the parent's nodes left in place
MutateMuscle_OldIds(id, muscle, old_uuid_to_new_uuid) ==
    Muscle(id, muscle.from_id, muscle.to_id)

\* the new muscle of mutate (creature.rs:159-162)
MutateMuscle(id, muscle, old_uuid_to_new_uuid) ==
    Muscle(id, old_uuid_to_new_uuid[muscle.from_id], old_uuid_to_new_uuid[muscle.to_id])

\* the indexing in mutate panics for a muscle end that is no node and for a muscle
\* without movement parameters (creature.rs:160-166)
mutate_panics(c) ==
    \E id \in DOMAIN c.muscles :
        \/ c.muscles[id].from_id \notin DOMAIN c.nodes
        \/ c.muscles[id].to_id \notin DOMAIN c.nodes
        \/ id \notin DOMAIN c.movement_parameters

\* CreatureBuilder::mutate (creature.rs:140-176), Uuids from uuid on: the builder,
\* the nodes, then the muscles
mutate(c, uuid, delta) ==
    LET node_keys == Keys(c.nodes)
        muscle_keys == Keys(c.muscles)
        n == Len(node_keys)
        old_uuid_to_new_uuid == [old \in DOMAIN c.nodes |->
            uuid + (CHOOSE i \in 1..n : node_keys[i] = old)]
        new_muscle_id == [old \in DOMAIN c.muscles |->
            uuid + n + (CHOOSE i \in 1..Len(muscle_keys) : muscle_keys[i] = old)]
        nodes == [id \in {old_uuid_to_new_uuid[old] : old \in DOMAIN c.nodes} |->
            LET old == CHOOSE old \in DOMAIN c.nodes : old_uuid_to_new_uuid[old] = id
            IN Node(id, c.nodes[old].position, c.nodes[old].size)]
        muscles == [id \in {new_muscle_id[old] : old \in DOMAIN c.muscles} |->
            LET old == CHOOSE old \in DOMAIN c.muscles : new_muscle_id[old] = id
            IN MutateMuscle(id, c.muscles[old], old_uuid_to_new_uuid)]
        movement_parameters == [id \in DOMAIN muscles |->
            LET old == CHOOSE old \in DOMAIN c.muscles : new_muscle_id[old] = id
            IN parameters_mutate(c.movement_parameters[old])]
    IN [id |-> uuid, nodes |-> nodes, muscles |-> muscles,
        movement_parameters |-> Some(movement_parameters),
        colors |-> Some(colors_mutate(c.colors, delta))]

\* every Uuid of a builder or creature
AllIds(b) == {b.id} \cup DOMAIN b.nodes \cup DOMAIN b.muscles

\* no Simulation built by a caller, no function being called
NoSimulation == [creature |-> NoCreature, bodies |-> <<>>, steps |-> 0]
NoCalc == [op |-> "none"]

NoCreatureInit ==
    /\ builder = NoBuilder
    /\ creature = NoCreature
    /\ parent_creature = NoCreature
    /\ offspring = NoBuilder
    /\ sibling_ids = {}
    /\ added = NothingAdded
    /\ simulation = NoSimulation

NoBuilderInit ==
    /\ NoCreatureInit
    /\ calc = NoCalc

----------------------------------------------------------------------------
(* evolver.rs: generations *)

Simulating(n) == [variant |-> "SimulatingGeneration", steps_left |-> n]
Evolving(n) == [variant |-> "Evolving", steps_left |-> n]

\* the descriptor of a creature as the Evolver uses it: its Uuid, and as history
\* the Uuid of the creature it was mutated from (0 for a random creature)
Creature(id, parent_id) == [id |-> id, parent |-> parent_id]

\* generate_next_generation, first generation (evolver.rs:51-67):
\* SIMULATIONS_PER_GENERATION random creatures, each in a Simulation of its own
FirstGeneration(uuid, spawn) ==
    [i \in 1..SIMULATIONS_PER_GENERATION |->
        SimulationNew(Creature(uuid + i - 1, 0), spawn[i])]

\* GoesBefore with the two scores exchanged: a.get_score().total_cmp(&b.get_score())
GoesBefore_Ascending(a, b) == ~total_le(get_score(b), get_score(a))

\* the comparator of sort_by (evolver.rs:71): a goes before b when
\* b.get_score().total_cmp(&a.get_score()) is Less
GoesBefore(a, b) == ~total_le(get_score(a), get_score(b))

\* slice::sort_by is stable: insert sim behind every element that does not go after it
RECURSIVE InsertSorted(_, _, _)
InsertSorted(sorted, sim, i) ==
    IF i > Len(sorted) THEN Append(sorted, sim)
    ELSE IF GoesBefore(sim, sorted[i])
         THEN SubSeq(sorted, 1, i - 1) \o <<sim>> \o SubSeq(sorted, i, Len(sorted))
         ELSE InsertSorted(sorted, sim, i + 1)

RECURSIVE SortFrom(_, _, _)
SortFrom(gen, i, sorted) ==
    IF i > Len(gen) THEN sorted
    ELSE SortFrom(gen, i + 1, InsertSorted(sorted, gen[i], 1))

\* the generation left in the order it has
SortByScore_Unsorted(gen) == gen

\* sorted_generation.sort_by(|a, b| b.get_score().total_cmp(&a.get_score()))
SortByScore(gen) == SortFrom(gen, 1, <<>>)

\* the sort and the collection of old_scores call get_score on every simulation
GeneratePanics(gen) == \E i \in 1..Len(gen) : get_score(gen[i]) = PANIC

\* the loop of evolver.rs:78-92: the index (in the sorted generation) of the parent
\* of every simulation pushed to new_generation
RECURSIVE ParentsFrom(_, _, _)
ParentsFrom(sorted, i, acc) ==
    IF i > Len(sorted) \/ Len(acc) >= SIMULATIONS_PER_GENERATION THEN acc
    ELSE ParentsFrom(sorted, i + 1,
                     acc \o [j \in 1..OFFSPRING_PER_CREATURE |-> i])

\* the loop without the break at SIMULATIONS_PER_GENERATION: every simulation is a parent
ParentsOfNew_NoBreak(sorted) ==
    [k \in 1..(Len(sorted) * OFFSPRING_PER_CREATURE) |-> ((k - 1) \div OFFSPRING_PER_CREATURE) + 1]

ParentsOfNew(sorted) == ParentsFrom(sorted, 1, <<>>)

\* new_generation: the k-th simulation holds a mutation of its parent's creature
NewGeneration(sorted, parents, uuid, spawn) ==
    [k \in 1..Len(parents) |->
        SimulationNew(Creature(uuid + k - 1, sorted[parents[k]].creature.id),
                      spawn[k])]

\* StepState with the evolving phase started with the wrong countdown
StepState_WrongCountdown(st) ==
    LET left == st.steps_left - 1
    IN IF st.variant = "SimulatingGeneration"
       THEN IF left <= 0 THEN Evolving(STEPS_PER_GENERATION) ELSE Simulating(left)
       ELSE IF left <= 0 THEN Simulating(STEPS_PER_GENERATION) ELSE Evolving(left)

\* the state machine of Evolver::step without the generation (evolver.rs:115-139)
StepState(st) ==
    LET left == st.steps_left - 1
    IN IF st.variant = "SimulatingGeneration"
       THEN IF left <= 0 THEN Evolving(STEPS_PER_EVOLUTION) ELSE Simulating(left)
       ELSE IF left <= 0 THEN Simulating(STEPS_PER_GENERATION) ELSE Evolving(left)

\* StepsSimulations in the evolving phase as well
StepsSimulations_AnyPhase(st) == st.steps_left - 1 > 0

\* the step reaches the loop over the simulations (evolver.rs:125-127)
StepsSimulations(st) == st.variant = "SimulatingGeneration" /\ st.steps_left - 1 > 0

\* Generates with the countdown of the evolving phase compared by < instead of <=
Generates_OneLate(st) == st.variant = "Evolving" /\ st.steps_left - 1 < 0

\* the step calls generate_next_generation (evolver.rs:136)
Generates(st) == st.variant = "Evolving" /\ st.steps_left - 1 <= 0

\* StepOne with one physics world for all simulations: the bodies of the first
\* simulation move as well
StepOne_SharedWorld(gen, i, moved_i) ==
    [k \in 1..Len(gen) |->
        IF k = i THEN SimulationStep(gen[k], moved_i)
        ELSE IF k = 1 THEN [gen[k] EXCEPT !.bodies = moved_i]
        ELSE gen[k]]

\* simulation.step() for the simulation at index i (evolver.rs:126)
StepOne(gen, i, moved_i) ==
    [k \in 1..Len(gen) |-> IF k = i THEN SimulationStep(gen[k], moved_i) ELSE gen[k]]

\* StepAll leaving out the last simulation
StepAll_SkipsLast(gen, moved) ==
    [i \in 1..Len(gen) |-> IF i = Len(gen) THEN gen[i] ELSE SimulationStep(gen[i], moved[i])]

\* for simulation in &mut self.current_generation { simulation.step(); }
StepAll(gen, moved) == [i \in 1..Len(gen) |-> SimulationStep(gen[i], moved[i])]

\* generate_next_generation for on_generation > 0 (evolver.rs:69-95)
generate_next_generation ==
    \E sorted \in {SortByScore(current_generation)} :
    \E parents \in {ParentsOfNew(sorted)} :
    \E old_scores \in {[i \in 1..Len(sorted) |-> get_score(sorted[i])]} :
    \E spawn \in [1..Len(parents) -> Bodies] :
        /\ generation_scores' = Append(generation_scores, old_scores)
        /\ current_generation' = NewGeneration(sorted, parents, next_uuid, spawn)
        /\ next_uuid' = next_uuid + Len(parents)
        /\ on_generation' = on_generation + 1

\* Evolver::step (evolver.rs:114-140); a panic inside it ends the thread
step ==
    /\ state' = StepState(state)
    /\ IF StepsSimulations(state)
       THEN /\ \E moved \in [1..Len(current_generation) -> Bodies] :
                 current_generation' = StepAll(current_generation, moved)
            /\ pc' = pc
            /\ UNCHANGED <<on_generation, generation_scores, next_uuid>>
       ELSE IF Generates(state)
       THEN IF GeneratePanics(current_generation)
            THEN /\ pc' = "panicked"
                 /\ UNCHANGED <<current_generation, on_generation,
                                generation_scores, next_uuid>>
            ELSE /\ generate_next_generation
                 /\ pc' = pc
       ELSE /\ pc' = pc
            /\ UNCHANGED <<current_generation, on_generation,
                           generation_scores, next_uuid>>

----------------------------------------------------------------------------
(* evolver.rs: Evolver::run, one action per position in it *)

\* CarryIn forgetting the remainder of the previous call
CarryIn_Dropped(elapsed, left_over) == elapsed

\* time += self.time_left_over (evolver.rs:144)
CarryIn(elapsed, left_over) == elapsed + left_over

\* while time > STEPS_FREQUENCY (evolver.rs:146)
HasTick(t) == t > STEPS_FREQUENCY

\* run(elapsed) is entered
RunCall(elapsed) ==
    /\ pc = "idle"
    /\ on_generation < MaxGeneration
    /\ time' = CarryIn(elapsed, time_left_over)
    /\ pc' = "run"
    /\ call' = [total |-> elapsed + time_left_over, steps |-> 0]
    /\ sum' = sum + elapsed
    /\ UNCHANGED <<evolver_vars, next_uuid, base, ticks, builder_vars>>

\* one iteration of the loop: time -= STEPS_FREQUENCY; self.step()
RunTick ==
    /\ pc = "run"
    /\ HasTick(time)
    /\ time' = time - STEPS_FREQUENCY
    /\ step
    /\ call' = [call EXCEPT !.steps = @ + 1]
    /\ ticks' = ticks + 1
    /\ UNCHANGED <<time_left_over, base, sum, builder_vars>>

\* the loop is left: self.time_left_over = time
RunReturn ==
    /\ pc = "run"
    /\ ~HasTick(time)
    /\ time_left_over' = time
    /\ pc' = "idle"
    /\ time' = 0
    /\ UNCHANGED <<current_generation, on_generation, generation_scores, state,
                   next_uuid, call, base, sum, ticks, builder_vars>>

\* the clock of an Evolver: what run and step read and write besides the generation
Clock(st, gen, left_over) ==
    [variant |-> st.variant, steps_left |-> st.steps_left,
     on_generation |-> gen, time_left_over |-> left_over]

\* Evolver::step on the clock
StepClock(c) ==
    LET st == StepState([variant |-> c.variant, steps_left |-> c.steps_left])
    IN [c EXCEPT !.variant = st.variant,
                 !.steps_left = st.steps_left,
                 !.on_generation = IF Generates([variant |-> c.variant,
                                                 steps_left |-> c.steps_left])
                                   THEN @ + 1 ELSE @]

\* the loop of Evolver::run on the clock: the clock it leaves and the steps it made
RECURSIVE RunLoop(_, _, _)
RunLoop(c, t, n) ==
    IF HasTick(t) THEN RunLoop(StepClock(c), t - STEPS_FREQUENCY, n + 1)
    ELSE [clock |-> [c EXCEPT !.time_left_over = t], steps |-> n]

\* one call run(elapsed) on the clock c
RunOnce(c, elapsed) == RunLoop(c, CarryIn(elapsed, c.time_left_over), 0)

\* Evolver::new (evolver.rs:27-41)
Init ==
    /\ \E spawn \in [1..SIMULATIONS_PER_GENERATION -> Bodies] :
          current_generation = FirstGeneration(1, spawn)
    /\ next_uuid = 1 + SIMULATIONS_PER_GENERATION
    /\ on_generation = 1
    /\ generation_scores = <<>>
    /\ time_left_over = 0
    /\ state = Simulating(STEPS_PER_GENERATION)
    /\ pc = "idle"
    /\ time = 0
    /\ call = [total |-> 0, steps |-> 0]
    /\ base = Clock(state, on_generation, time_left_over)
    /\ sum = 0
    /\ ticks = 0
    /\ NoBuilderInit

Next ==
    \/ \E elapsed \in 0..MaxElapsed : RunCall(elapsed)
    \/ RunTick
    \/ RunReturn

Spec == Init /\ [][Next]_vars

\* The time-slicing specification: the Evolver is taken between two calls of run in
\* its first generation, at any point of the state machine and with any remainder,
\* and run is called until MaxTotal time has been handed to it.
InitSlice ==
    \E st \in {Simulating(n) : n \in 1..STEPS_PER_GENERATION}
                \cup {Evolving(n) : n \in 1..STEPS_PER_EVOLUTION} :
    \E left_over \in 0..STEPS_FREQUENCY :
    \E spawn \in [1..SIMULATIONS_PER_GENERATION -> Bodies] :
        /\ current_generation =
              [i \in 1..SIMULATIONS_PER_GENERATION |->
                  [FirstGeneration(1, spawn)[i] EXCEPT !.steps =
                      IF st.variant = "SimulatingGeneration"
                      THEN STEPS_PER_GENERATION - st.steps_left
                      ELSE STEPS_PER_GENERATION - 1]]
        /\ next_uuid = 1 + SIMULATIONS_PER_GENERATION
        /\ on_generation = 1
        /\ generation_scores = <<>>
        /\ time_left_over = left_over
        /\ state = st
        /\ pc = "idle"
        /\ time = 0
        /\ call = [total |-> 0, steps |-> 0]
        /\ base = Clock(state, on_generation, time_left_over)
        /\ sum = 0
        /\ ticks = 0
        /\ NoBuilderInit

RunCallSlice(elapsed) ==
    /\ sum + elapsed <= MaxTotal
    /\ RunCall(elapsed)

NextSlice ==
    \/ \E elapsed \in 0..MaxElapsed : RunCallSlice(elapsed)
    \/ RunTick
    \/ RunReturn

SpecSlice == InitSlice /\ [][NextSlice]_vars

\* what the code's scheduling gives: the loop of run goes on to its end, and the
\* frame loop (ui.rs:352) calls run again and again with the time that has passed,
\* which is positive again and again unless the speed is 0
FairSpec ==
    /\ Spec
    /\ WF_vars(RunTick)
    /\ WF_vars(RunReturn)
    /\ SF_vars(\E elapsed \in 1..MaxElapsed : RunCall(elapsed))

\* The NaN specification: the Evolver is taken in its first evolving phase, after the
\* physics pipeline (rapier, outside the repository) has left any coordinates,
\* NaN among them, in the bodies of the finished generation.
BodiesNaN == [1..NumBodies -> [x : XCoords \cup {NaN}, y : {FLOOR_TOP_Y, NaN}]]

InitNaN ==
    \E n \in 1..STEPS_PER_EVOLUTION :
    \E finished \in [1..SIMULATIONS_PER_GENERATION -> BodiesNaN] :
        /\ current_generation =
              [i \in 1..SIMULATIONS_PER_GENERATION |->
                  [creature |-> Creature(i, 0), bodies |-> finished[i],
                   steps |-> STEPS_PER_GENERATION - 1]]
        /\ next_uuid = 1 + SIMULATIONS_PER_GENERATION
        /\ on_generation = 1
        /\ generation_scores = <<>>
        /\ time_left_over = 0
        /\ state = Evolving(n)
        /\ pc = "idle"
        /\ time = 0
        /\ call = [total |-> 0, steps |-> 0]
        /\ base = Clock(state, on_generation, time_left_over)
        /\ sum = 0
        /\ ticks = 0
        /\ NoBuilderInit

SpecNaN == InitNaN /\ [][Next]_vars

----------------------------------------------------------------------------
(* creature.rs: the operations of CreatureBuilder as actions of a caller *)

\* what the operations of CreatureBuilder leave alone
clock_vars == <<current_generation, on_generation, generation_scores, time_left_over,
                state, time, call, base, sum, ticks, simulation, calc>>

\* a panic ends the thread
Panic ==
    /\ pc' = "panicked"
    /\ UNCHANGED <<next_uuid, builder, creature, parent_creature, offspring,
                   sibling_ids, added>>

\* let b = CreatureBuilder::new(), for the first creature
New ==
    /\ pc = "idle"
    /\ builder.id = NoId /\ creature.id = NoId
    /\ next_uuid <= MaxUuid
    /\ builder' = builder_new(next_uuid)
    /\ next_uuid' = next_uuid + 1
    /\ added' = NothingAdded
    /\ UNCHANGED <<clock_vars, pc, creature, parent_creature, offspring, sibling_ids>>

\* let b = CreatureBuilder::random(), for the first creature
Random ==
    /\ pc = "idle"
    /\ builder.id = NoId /\ creature.id = NoId
    /\ \E n \in BASE_RANDOM_NODES..(BASE_RANDOM_NODES + MaxExtraNodes) :
       \E place \in [1..n -> Placements] :
       \E connect \in [{p \in (1..n) \X (1..n) : p[1] # p[2]} -> BOOLEAN] :
       \E b \in {random(next_uuid, n, place, connect)} :
          /\ next_uuid + Cardinality(AllIds(b)) <= MaxUuid + 1
          /\ builder' = b
          /\ next_uuid' = next_uuid + Cardinality(AllIds(b))
    /\ UNCHANGED <<clock_vars, pc, creature, parent_creature, offspring, sibling_ids, added>>

\* let b = CreatureBuilder::mutate(&creature); the caller mutates one creature, any
\* number of times
Mutate ==
    /\ pc = "idle"
    /\ creature.id # NoId
    /\ parent_creature.id \in {NoId, creature.id}
    /\ next_uuid + Cardinality(AllIds(creature)) <= MaxUuid + 1
    /\ UNCHANGED clock_vars
    /\ IF mutate_panics(creature)
       THEN Panic
       ELSE /\ \E delta \in HueDeltas : builder' = mutate(creature, next_uuid, delta)
            /\ next_uuid' = next_uuid + Cardinality(AllIds(creature))
            /\ parent_creature' = creature
            /\ offspring' = builder'
            /\ sibling_ids' = IF parent_creature.id = creature.id
                              THEN sibling_ids \cup AllIds(offspring) ELSE {}
            /\ added' = NothingAdded
            /\ UNCHANGED <<pc, creature>>

\* b = b.add_node(Node::new(position, size))
AddNode ==
    /\ pc = "idle"
    /\ builder.id # NoId
    /\ next_uuid <= MaxUuid
    /\ Cardinality(DOMAIN builder.nodes) < MaxNodes
    /\ \E place \in Placements :
          /\ builder' = add_node(builder, Node(next_uuid, place.position, place.size))
          /\ added' = [added EXCEPT !.nodes = @ \cup {Node(next_uuid, place.position, place.size)}]
    /\ next_uuid' = next_uuid + 1
    /\ UNCHANGED <<clock_vars, pc, creature, parent_creature, offspring, sibling_ids>>

\* b = b.add_muscle(Muscle::new(from_id, to_id)), from_id and to_id any Uuids
AddMuscle ==
    /\ pc = "idle"
    /\ builder.id # NoId
    /\ next_uuid <= MaxUuid
    /\ Cardinality(DOMAIN builder.muscles) < MaxMuscles
    /\ \E from_id, to_id \in DOMAIN builder.nodes \cup {NoId} :
          /\ builder' = add_muscle(builder, Muscle(next_uuid, from_id, to_id))
          /\ added' = [added EXCEPT !.muscles = @ \cup {Muscle(next_uuid, from_id, to_id)}]
    /\ next_uuid' = next_uuid + 1
    /\ UNCHANGED <<clock_vars, pc, creature, parent_creature, offspring, sibling_ids>>

\* b = b.add_movement_parameters(map), the map holding parameters for all muscles
\* added so far or for none
AddMovementParameters ==
    /\ pc = "idle"
    /\ builder.id # NoId
    /\ \E keys \in {DOMAIN builder.muscles, {}} :
          builder' = add_movement_parameters(builder,
                        [id \in keys |-> [muscle_length |-> 10]])
    /\ UNCHANGED <<clock_vars, pc, next_uuid, creature, parent_creature, offspring,
                   sibling_ids, added>>

\* b = b.add_colors(CreatureColors::from_hue(hue))
AddColors ==
    /\ pc = "idle"
    /\ builder.id # NoId
    /\ \E hue \in Hues : builder' = add_colors(builder, hue)
    /\ UNCHANGED <<clock_vars, pc, next_uuid, creature, parent_creature, offspring,
                   sibling_ids, added>>

\* b = b.translate(x, y), as long as the creature stays within MaxCoord
Translate ==
    /\ pc = "idle"
    /\ builder.id # NoId
    /\ \E x \in {4}, y \in {0} :
          /\ \A id \in DOMAIN builder.nodes :
                /\ builder.nodes[id].position.x + x <= MaxCoord
                /\ builder.nodes[id].position.y + y <= MaxCoord
          /\ builder' = translate(builder, x, y)
    /\ UNCHANGED <<clock_vars, pc, next_uuid, creature, parent_creature, offspring,
                   sibling_ids, added>>

\* b = b.translate_bottom_center_to(&bottom_center), the spawn point of evolver.rs:50
TranslateBottomCenterTo ==
    /\ pc = "idle"
    /\ builder.id # NoId
    /\ UNCHANGED clock_vars
    /\ IF translate_bottom_center_panics(builder)
       THEN Panic
       ELSE /\ builder' = translate_bottom_center_to(builder,
                              Position(WORLD_X_SIZE \div 2, FLOOR_TOP_Y))
            /\ UNCHANGED <<pc, next_uuid, creature, parent_creature, offspring,
                           sibling_ids, added>>

\* let creature = b.build()
Build ==
    /\ pc = "idle"
    /\ builder.id # NoId
    /\ UNCHANGED clock_vars
    /\ IF build_panics(builder)
       THEN Panic
       ELSE /\ \E hue \in Hues : creature' = build(builder, hue)
            /\ builder' = NoBuilder
            /\ UNCHANGED <<pc, next_uuid, parent_creature, offspring, sibling_ids, added>>

\* no Evolver yet
NoEvolverInit ==
    /\ current_generation = <<>>
    /\ next_uuid = 1
    /\ on_generation = 0
    /\ generation_scores = <<>>
    /\ time_left_over = 0
    /\ state = Simulating(STEPS_PER_GENERATION)
    /\ pc = "idle"
    /\ time = 0
    /\ call = [total |-> 0, steps |-> 0]
    /\ base = Clock(state, on_generation, time_left_over)
    /\ sum = 0
    /\ ticks = 0

\* no Evolver yet, no builder yet
InitBuilder ==
    /\ NoEvolverInit
    /\ NoBuilderInit

NextBuilder ==
    \/ New
    \/ Random
    \/ Mutate
    \/ AddNode
    \/ AddMuscle
    \/ AddMovementParameters
    \/ AddColors
    \/ Translate
    \/ TranslateBottomCenterTo
    \/ Build

SpecBuilder == InitBuilder /\ [][NextBuilder]_vars

\* a caller that makes one builder with new() and adds to it before it builds
NextAdd ==
    \/ New
    \/ AddNode
    \/ AddMuscle
    \/ AddMovementParameters
    \/ Build

SpecAdd == InitBuilder /\ [][NextAdd]_vars

----------------------------------------------------------------------------
(* position.rs: Position::distance_to called on its own *)

\* a.distance_to(&b)
DistanceTo ==
    /\ calc.op = "none"
    /\ \E ax, ay, bx, by \in 0..MaxDistanceCoord :
          calc' = [op |-> "Position::distance_to",
                   a |-> Position(ax, ay), b |-> Position(bx, by),
                   distance |-> distance_to(Position(ax, ay), Position(bx, by))]
    /\ UNCHANGED <<evolver_vars, pc, time, next_uuid, call, base, sum, ticks, builder,
                   creature, parent_creature, offspring, sibling_ids, simulation, added>>

SpecDistance == InitBuilder /\ [][DistanceTo]_vars

----------------------------------------------------------------------------
(* creature.rs: the loop over the pairs of nodes of CreatureBuilder::random *)

\* the loop over n nodes, connect the outcomes of its draws
RandomPairs ==
    /\ calc.op = "none"
    /\ \E n \in BASE_RANDOM_NODES..(BASE_RANDOM_NODES + MaxExtraNodes + 1) :
       \E connect \in [{p \in (1..n) \X (1..n) : p[1] # p[2]} -> BOOLEAN] :
          calc' = [op |-> "CreatureBuilder::random", n |-> n, connect |-> connect,
                   draws |-> PairDraws(n, connect, 1, {}, <<>>),
                   muscles |-> PairLoop(n, connect, 1, {}, <<>>)]
    /\ UNCHANGED <<evolver_vars, pc, time, next_uuid, call, base, sum, ticks, builder,
                   creature, parent_creature, offspring, sibling_ids, simulation, added>>

SpecPairs == InitBuilder /\ [][RandomPairs]_vars

----------------------------------------------------------------------------
(* creature_colors.rs: CreatureColors::mutate called on its own *)

\* the hues a CreatureColors can hold when mutate is called: from new() and from
\* mutate() itself, 0..359
ParentHues == 0..(HUE_MODULUS - 1)

\* MUTATE_COLOR_HUE_RANGE (creature_colors.rs:7)
MUTATE_COLOR_HUE_RANGE == (0 - MUTATE_COLOR_HUE_MAX)..MUTATE_COLOR_HUE_MAX

\* CreatureColors::mutate(&colors) is entered
InitColors ==
    /\ NoEvolverInit
    /\ NoCreatureInit
    /\ \E hue \in ParentHues :
          calc = [op |-> "CreatureColors::mutate", hue |-> hue, delta |-> 0,
                  new_hue |-> 0, done |-> FALSE]

\* the body of CreatureColors::mutate: the draw of the delta and new_hue
ColorsMutate ==
    /\ calc.op = "CreatureColors::mutate"
    /\ ~calc.done
    /\ \E delta \in MUTATE_COLOR_HUE_RANGE :
          calc' = [calc EXCEPT !.delta = delta,
                               !.new_hue = colors_mutate(calc.hue, delta),
                               !.done = TRUE]
    /\ UNCHANGED <<evolver_vars, pc, time, next_uuid, call, base, sum, ticks, builder,
                   creature, parent_creature, offspring, sibling_ids, simulation, added>>

NextColors == ColorsMutate

SpecColors == InitColors /\ [][NextColors]_vars

----------------------------------------------------------------------------
(* movement_parameters.rs: the schedule of a muscle *)

\* the ranges the fields are drawn from (movement_parameters.rs:12-22)
OFFSET_RANGE == 0..(SIMULATOR_STEPS_PER_SECOND * 12)
\* a range of the movement periods that starts at 0 as the ranges of the sleep periods do
PERIOD_RANGE_FromZero == 0..(SIMULATOR_STEPS_PER_SECOND * 4)

\* the range of the four movement periods (movement_parameters.rs:14,16,19,21)
PERIOD_RANGE == (SIMULATOR_STEPS_PER_SECOND \div 2)..(SIMULATOR_STEPS_PER_SECOND * 4)
SLEEP_PERIOD_RANGE == 0..(SIMULATOR_STEPS_PER_SECOND * 8)

\* what rng.gen_range(range) may return: the ends of the range
GenRange(range) ==
    {n \in range : (\A m \in range : n <= m) \/ (\A m \in range : n >= m)}

\* an f32 between 0 and 1 as a fraction, and its comparisons
Frac(num, den) == [num |-> num, den |-> den]
FracEq(a, b) == a.num * b.den = b.num * a.den
FracLe(a, b) == a.num * b.den <= b.num * a.den

\* 0.5 + (step_delta / extension_period) * 0.5 (movement_parameters.rs:103)
ExtensionRamp(step_delta, period) == Frac(period + step_delta, 2 * period)

\* ExtensionReturnRamp falling to 0 instead of 0.5
ExtensionReturnRamp_ToZero(step_delta, period) == Frac(period - step_delta, period)

\* 1.0 - (step_delta / extension_return_period) * 0.5 (movement_parameters.rs:115)
ExtensionReturnRamp(step_delta, period) == Frac(2 * period - step_delta, 2 * period)

\* ContractionRamp without the factor 0.5
ContractionRamp_Unscaled(step_delta, period) == Frac(period - 2 * step_delta, 2 * period)

\* 0.5 - (step_delta / contraction_period) * 0.5 (movement_parameters.rs:127)
ContractionRamp(step_delta, period) == Frac(period - step_delta, 2 * period)

\* (step_delta / contraction_return_period) * 0.5 (movement_parameters.rs:139)
ContractionReturnRamp(step_delta, period) == Frac(step_delta, 2 * period)

\* the sum of the eight periods (movement_parameters.rs:87-94)
TotalPeriod(mp) ==
    mp.extension_period + mp.extension_sleep_period + mp.extension_return_period
        + mp.extension_return_sleep_period + mp.contraction_period
        + mp.contraction_sleep_period + mp.contraction_return_period
        + mp.contraction_return_sleep_period

\* MovementParameters::get_extension_at (movement_parameters.rs:86-143)
get_extension_at(mp, t) ==
    IF t < mp.offset THEN Frac(1, 2)
    ELSE LET d1 == (t - mp.offset) % TotalPeriod(mp)
             d2 == d1 - mp.extension_period
             d3 == d2 - mp.extension_sleep_period
             d4 == d3 - mp.extension_return_period
             d5 == d4 - mp.extension_return_sleep_period
             d6 == d5 - mp.contraction_period
             d7 == d6 - mp.contraction_sleep_period
         IN IF d1 < mp.extension_period THEN ExtensionRamp(d1, mp.extension_period)
            ELSE IF d2 < mp.extension_sleep_period THEN Frac(1, 1)
            ELSE IF d3 < mp.extension_return_period
                 THEN ExtensionReturnRamp(d3, mp.extension_return_period)
            ELSE IF d4 < mp.extension_return_sleep_period THEN Frac(1, 2)
            ELSE IF d5 < mp.contraction_period
                 THEN ContractionRamp(d5, mp.contraction_period)
            ELSE IF d6 < mp.contraction_sleep_period THEN Frac(0, 1)
            ELSE IF d7 < mp.contraction_return_period
                 THEN ContractionReturnRamp(d7, mp.contraction_return_period)
            ELSE Frac(1, 2)

\* generate_for_muscles_and_nodes is entered for one muscle
InitSchedule ==
    /\ NoEvolverInit
    /\ NoCreatureInit
    /\ calc = [op |-> "MovementParameters::generate_for_muscles_and_nodes"]

\* the MovementParameters that generate_for_muscles_and_nodes inserts for a muscle
\* (movement_parameters.rs:55-72), the muscle length apart
GenerateParameters ==
    /\ calc.op = "MovementParameters::generate_for_muscles_and_nodes"
    /\ \E offset \in GenRange(OFFSET_RANGE) :
       \E e, er, c, cr \in GenRange(PERIOD_RANGE) :
       \E es, ers, cs, crs \in GenRange(SLEEP_PERIOD_RANGE) :
          calc' = [op |-> "MovementParameters",
                   parameters |->
                      [offset |-> offset,
                       extension_period |-> e,
                       extension_sleep_period |-> es,
                       extension_return_period |-> er,
                       extension_return_sleep_period |-> ers,
                       contraction_period |-> c,
                       contraction_sleep_period |-> cs,
                       contraction_return_period |-> cr,
                       contraction_return_sleep_period |-> crs]]
    /\ UNCHANGED <<evolver_vars, pc, time, next_uuid, call, base, sum, ticks, builder,
                   creature, parent_creature, offspring, sibling_ids, simulation, added>>

\* parameters.get_extension_at(step), as step_muscles calls it with the step counter
GetExtensionAt ==
    /\ calc.op = "MovementParameters"
    /\ \E t \in 0..MaxStep :
          calc' = [op |-> "MovementParameters::get_extension_at",
                   parameters |-> calc.parameters,
                   step |-> t,
                   extension |-> get_extension_at(calc.parameters, t)]
    /\ UNCHANGED <<evolver_vars, pc, time, next_uuid, call, base, sum, ticks, builder,
                   creature, parent_creature, offspring, sibling_ids, simulation, added>>

\* simulation.rs:21-23, in hundredths
MAX_MUSCLE_CONTRACTION == -50
MAX_MUSCLE_EXTENSION == 50
MUSCLE_LIMIT_FLUX == 115

\* the impulse joints Simulation::new inserts for one muscle: a revolute joint at
\* each end and the prismatic joint between the node bodies, the only one whose
\* handle goes into joint_handles_to_muscle_ids
muscle_joints ==
    [h \in {"from_joint", "to_joint", "joint"} |->
        [kind |-> IF h = "joint" THEN "prismatic" ELSE "revolute",
         tracked |-> h = "joint"]]

\* .limits([joint_length * MUSCLE_LIMIT_FLUX * MAX_MUSCLE_CONTRACTION,
\*          joint_length * MUSCLE_LIMIT_FLUX * MAX_MUSCLE_EXTENSION])
joint_limits(joint_length) ==
    [lo |-> Frac(joint_length * MUSCLE_LIMIT_FLUX * MAX_MUSCLE_CONTRACTION, 100 * 100),
     hi |-> Frac(joint_length * MUSCLE_LIMIT_FLUX * MAX_MUSCLE_EXTENSION, 100 * 100)]

\* the target without the MAX_MUSCLE_CONTRACTION it starts from
motor_position_FromZero(muscle_length, extension_delta) ==
    Frac(muscle_length * (MAX_MUSCLE_EXTENSION - MAX_MUSCLE_CONTRACTION) * extension_delta.num,
         100 * extension_delta.den)

\* (MAX_MUSCLE_CONTRACTION + (MAX_MUSCLE_EXTENSION - MAX_MUSCLE_CONTRACTION)
\*    * extension_delta) * muscle_length
motor_position(muscle_length, extension_delta) ==
    Frac(muscle_length
            * (MAX_MUSCLE_CONTRACTION * extension_delta.den
                  + (MAX_MUSCLE_EXTENSION - MAX_MUSCLE_CONTRACTION) * extension_delta.num),
         100 * extension_delta.den)

\* step_muscles at one step counter, for the joints of one muscle of the length
\* drawn: every tracked joint is taken as a prismatic joint (the unwrap panics on
\* another kind) and its motor gets the target position
StepMuscles ==
    /\ calc.op = "MovementParameters"
    /\ \E t \in 0..MaxStep, muscle_length \in 0..MaxMuscleLength :
          calc' = [op |-> "Simulation::step_muscles",
                   parameters |-> calc.parameters,
                   muscle_length |-> muscle_length,
                   step |-> t,
                   joints |-> muscle_joints,
                   limits |-> joint_limits(muscle_length),
                   motors |->
                      [h \in {j \in DOMAIN muscle_joints : muscle_joints[j].tracked} |->
                          [panics |-> muscle_joints[h].kind # "prismatic",
                           target |-> motor_position(muscle_length,
                                         get_extension_at(calc.parameters, t))]]]
    /\ UNCHANGED <<evolver_vars, pc, time, next_uuid, call, base, sum, ticks, builder,
                   creature, parent_creature, offspring, sibling_ids, simulation, added>>

NextSchedule ==
    \/ GenerateParameters
    \/ GetExtensionAt
    \/ StepMuscles

SpecSchedule == InitSchedule /\ [][NextSchedule]_vars

----------------------------------------------------------------------------
(* simulation.rs: scores and x coordinates *)

\* x coordinates of node bodies: the ends of the world and those around the spawn line
ScoreXs ==
    {0, WORLD_X_SIZE}
        \cup ((WORLD_X_SIZE \div 2 - MaxOffCentre)..(WORLD_X_SIZE \div 2 + MaxOffCentre))

\* the whole scores the ui converts (ui.rs:268), in units of 1/WORLD_X_SIZE
WholeScores == {n * WORLD_X_SIZE : n \in (0 - MaxOffCentre)..MaxOffCentre}

ScoreBodies == [1..NumBodies -> [x : ScoreXs, y : {FLOOR_TOP_Y}]]

\* a Simulation whose bodies the pipeline has moved
InitScore ==
    /\ NoEvolverInit
    /\ builder = NoBuilder
    /\ creature = NoCreature
    /\ parent_creature = NoCreature
    /\ offspring = NoBuilder
    /\ sibling_ids = {}
    /\ added = NothingAdded
    /\ \E bodies \in ScoreBodies : simulation = SimulationNew(NoCreature, bodies)
    /\ calc = NoCalc

\* simulation.get_score()
GetScore ==
    /\ calc.op = "none"
    /\ calc' = [op |-> "Simulation::get_score", score |-> get_score(simulation)]
    /\ UNCHANGED <<evolver_vars, pc, time, next_uuid, call, base, sum, ticks, builder,
                   creature, parent_creature, offspring, sibling_ids, simulation, added>>

\* Simulation::x_to_score(x)
XToScore ==
    /\ calc.op = "none"
    /\ \E x \in ScoreXs :
          calc' = [op |-> "Simulation::x_to_score", x |-> x, score |-> x_to_score(x)]
    /\ UNCHANGED <<evolver_vars, pc, time, next_uuid, call, base, sum, ticks, builder,
                   creature, parent_creature, offspring, sibling_ids, simulation, added>>

\* Simulation::score_to_x(score)
ScoreToX ==
    /\ calc.op = "none"
    /\ \E score \in WholeScores :
          calc' = [op |-> "Simulation::score_to_x", score |-> score, x |-> score_to_x(score)]
    /\ UNCHANGED <<evolver_vars, pc, time, next_uuid, call, base, sum, ticks, builder,
                   creature, parent_creature, offspring, sibling_ids, simulation, added>>

NextScore ==
    \/ GetScore
    \/ XToScore
    \/ ScoreToX

SpecScore == InitScore /\ [][NextScore]_vars

----------------------------------------------------------------------------
(* simulation.rs: a Simulation made of a Creature and read by a caller *)

\* the nodes of tests::create_creature (creature.rs:288-290)
SimPlacements == {[position |-> Position(1, 2), size |-> 3],
                  [position |-> Position(2, 1), size |-> 3],
                  [position |-> Position(5, 5), size |-> 3]}

\* b.add_node(..) for each of places, the Uuids from uuid on
RECURSIVE AddNodes(_, _, _, _)
AddNodes(b, places, uuid, i) ==
    IF i > Len(places) THEN b
    ELSE AddNodes(add_node(b, Node(uuid, places[i].position, places[i].size)),
                  places, uuid + 1, i + 1)

\* b.add_muscle(..) for each of links, the Uuids from uuid on
RECURSIVE AddMuscles(_, _, _, _)
AddMuscles(b, links, uuid, i) ==
    IF i > Len(links) THEN b
    ELSE AddMuscles(add_muscle(b, Muscle(uuid, links[i][1], links[i][2])),
                    links, uuid + 1, i + 1)

\* CreatureBuilder::new() followed by add_node, add_muscle and, for supplied other
\* than "none", add_movement_parameters with a map for all muscles or for none
SimBuilder(places, links, supplied) ==
    LET b == AddMuscles(AddNodes(builder_new(1), places, 2, 1),
                        links, 2 + Len(places), 1)
    IN IF supplied = "none" THEN b
       ELSE add_movement_parameters(b,
               [id \in (IF supplied = "all" THEN DOMAIN b.muscles ELSE {}) |->
                   [muscle_length |-> 10]])

\* the translation of the body of a node with x and y exchanged
SpawnTranslation_Transposed(node) == Position(node.position.y, node.position.x)

\* the translation of the body of a node (simulation.rs:81-83)
SpawnTranslation(node) == Position(node.position.x, node.position.y)

\* Simulation::new (simulation.rs:38-184): the unwraps of the loop over the muscles
\* (simulation.rs:100-105) panic on a muscle whose from_id or to_id is not a node
\* and on a muscle without movement parameters
simulation_new_panics(c) ==
    \E id \in DOMAIN c.muscles :
        \/ c.muscles[id].from_id \notin DOMAIN c.nodes
        \/ c.muscles[id].to_id \notin DOMAIN c.nodes
        \/ id \notin DOMAIN c.movement_parameters

\* the bodies are kept in the order of the node ids
simulation_new(c) ==
    SimulationNew(c, [i \in 1..Len(Keys(c.nodes)) |->
                        SpawnTranslation(c.nodes[Keys(c.nodes)[i]])])

\* Simulation::get_position_of_node (simulation.rs:192-199): the unwrap panics on
\* an id without a body
get_position_of_node_panics(sim, id) == id \notin DOMAIN sim.creature.nodes

get_position_of_node(sim, id) ==
    LET keys == Keys(sim.creature.nodes)
        i == CHOOSE i \in 1..Len(keys) : keys[i] = id
    IN sim.bodies[i]

\* Simulation::get_bounds (simulation.rs:211-227): min_by and max_by are None
\* without bodies and the unwrap panics
get_bounds_panics(sim) == Len(sim.bodies) = 0

\* Simulation::get_text_position (simulation.rs:230-234)
get_text_position(sim) ==
    LET b == get_bounds(sim)
    IN Position((b[1] + b[3]) \div 2, b[2])

\* where the pipeline may move the bodies in one step: each body stays or moves
\* to the right
MovedBodies(sim) ==
    {[i \in 1..Len(sim.bodies) |->
         Position(sim.bodies[i].x + dx[i], sim.bodies[i].y)] :
       dx \in [1..Len(sim.bodies) -> {0, 1}]}

\* collider_set with the node colliders in the groups of the floor collider
collider_set_NodesAsFloor(c) ==
    {[kind |-> "floor", of |-> NoId, memberships |-> {1}, filter |-> 1..32]}
        \cup {[kind |-> "node", of |-> id, memberships |-> {1}, filter |-> 1..32] :
                 id \in DOMAIN c.nodes}
        \cup {[kind |-> end, of |-> id, memberships |-> {}, filter |-> {}] :
                 end \in {"rotate_from", "rotate_to"}, id \in DOMAIN c.muscles}

\* the collider_set of Simulation::new(c): the floor collider (simulation.rs:62-69),
\* a ball per node (simulation.rs:87-96) and two balls per muscle for the bodies its
\* revolute joints turn (simulation.rs:118-149), each with its InteractionGroups;
\* a Group is the set of its bits, Group::ALL the bits 1..32, Group::NONE no bit
collider_set(c) ==
    {[kind |-> "floor", of |-> NoId, memberships |-> {1}, filter |-> 1..32]}
        \cup {[kind |-> "node", of |-> id, memberships |-> {2}, filter |-> {1}] :
                 id \in DOMAIN c.nodes}
        \cup {[kind |-> end, of |-> id, memberships |-> {}, filter |-> {}] :
                 end \in {"rotate_from", "rotate_to"}, id \in DOMAIN c.muscles}

\* step_muscles reading the step counter after its increment
step_muscles_Late(sim) == [id \in DOMAIN sim.creature.muscles |-> sim.steps + 1]

\* Simulation::step_muscles (simulation.rs:254-271): for the joint of every muscle,
\* the step count its motor position is computed for (simulation.rs:262)
step_muscles(sim) == [id \in DOMAIN sim.creature.muscles |-> sim.steps]

\* Simulation::step (simulation.rs:274-297): step_muscles, then the pipeline, then
\* steps += 1; motors is history: what step_muscles set before the pipeline ran
simulation_step(sim, moved) ==
    [creature |-> sim.creature,
     bodies |-> SimulationStep(sim, moved).bodies,
     steps |-> SimulationStep(sim, moved).steps,
     motors |-> step_muscles(sim)]

\* what the operations on a Simulation leave alone
caller_vars == <<evolver_vars, time, next_uuid, call, base, sum, ticks, builder,
                 creature, parent_creature, offspring, sibling_ids, added>>

\* a caller has made a builder and added nodes, muscles and possibly movement
\* parameters to it
InitSim ==
    /\ current_generation = <<>>
    /\ on_generation = 0
    /\ generation_scores = <<>>
    /\ time_left_over = 0
    /\ state = Simulating(STEPS_PER_GENERATION)
    /\ pc = "idle"
    /\ time = 0
    /\ call = [total |-> 0, steps |-> 0]
    /\ base = Clock(state, on_generation, time_left_over)
    /\ sum = 0
    /\ ticks = 0
    /\ creature = NoCreature
    /\ parent_creature = NoCreature
    /\ offspring = NoBuilder
    /\ sibling_ids = {}
    /\ simulation = NoSimulation
    /\ calc = NoCalc
    /\ \E n \in 0..MaxSimNodes, m \in 0..MaxSimMuscles :
       \E places \in [1..n -> SimPlacements] :
       \E links \in [1..m -> ((2..(n + 1)) \cup {NoId}) \X ((2..(n + 1)) \cup {NoId})] :
       \E supplied \in {"none", "all", "empty"} :
          /\ builder = SimBuilder(places, links, supplied)
          /\ next_uuid = 2 + n + m
          /\ added = [nodes |-> {builder.nodes[id] : id \in DOMAIN builder.nodes},
                      muscles |-> {builder.muscles[id] : id \in DOMAIN builder.muscles}]

\* let simulation = Simulation::new(creature)
SimNew ==
    /\ pc = "idle"
    /\ creature.id # NoId
    /\ simulation.creature.id = NoId
    /\ IF simulation_new_panics(creature)
       THEN /\ pc' = "panicked"
            /\ UNCHANGED simulation
       ELSE /\ simulation' = simulation_new(creature)
            /\ UNCHANGED pc
    /\ UNCHANGED <<caller_vars, calc>>

\* simulation.step()
SimStep ==
    /\ pc = "idle"
    /\ simulation.creature.id # NoId
    /\ simulation.steps < MaxSimSteps
    /\ calc.op = "none"
    /\ \E moved \in MovedBodies(simulation) :
          simulation' = simulation_step(simulation, moved)
    /\ UNCHANGED <<caller_vars, pc, calc>>

\* simulation.get_position_of_node(id), id any Uuid
GetPositionOfNode ==
    /\ pc = "idle"
    /\ simulation.creature.id # NoId
    /\ calc.op = "none"
    /\ \E id \in DOMAIN simulation.creature.nodes \cup {NoId} :
          IF get_position_of_node_panics(simulation, id)
          THEN /\ pc' = "panicked"
               /\ UNCHANGED calc
          ELSE /\ calc' = [op |-> "Simulation::get_position_of_node", id |-> id,
                           position |-> get_position_of_node(simulation, id)]
               /\ UNCHANGED pc
    /\ UNCHANGED <<caller_vars, simulation>>

\* simulation.get_bounds()
GetBounds ==
    /\ pc = "idle"
    /\ simulation.creature.id # NoId
    /\ calc.op = "none"
    /\ IF get_bounds_panics(simulation)
       THEN /\ pc' = "panicked"
            /\ UNCHANGED calc
       ELSE /\ calc' = [op |-> "Simulation::get_bounds", bounds |-> get_bounds(simulation)]
            /\ UNCHANGED pc
    /\ UNCHANGED <<caller_vars, simulation>>

\* simulation.get_text_position()
GetTextPosition ==
    /\ pc = "idle"
    /\ simulation.creature.id # NoId
    /\ calc.op = "none"
    /\ IF get_bounds_panics(simulation)
       THEN /\ pc' = "panicked"
            /\ UNCHANGED calc
       ELSE /\ calc' = [op |-> "Simulation::get_text_position",
                        position |-> get_text_position(simulation)]
            /\ UNCHANGED pc
    /\ UNCHANGED <<caller_vars, simulation>>

\* simulation.get_score() of the simulation of a creature
SimGetScore ==
    /\ pc = "idle"
    /\ simulation.creature.id # NoId
    /\ calc.op = "none"
    /\ IF get_bounds_panics(simulation)
       THEN /\ pc' = "panicked"
            /\ UNCHANGED calc
       ELSE /\ calc' = [op |-> "Simulation::get_score", score |-> get_score(simulation)]
            /\ UNCHANGED pc
    /\ UNCHANGED <<caller_vars, simulation>>

NextSim ==
    \/ Build
    \/ SimNew
    \/ SimStep
    \/ GetPositionOfNode
    \/ GetBounds
    \/ GetTextPosition
    \/ SimGetScore

SpecSim == InitSim /\ [][NextSim]_vars

----------------------------------------------------------------------------
(* Properties of the Evolver *)

Ids(gen) == {gen[i].creature.id : i \in 1..Len(gen)}

\* C1: the Evolver starts in SimulatingGeneration{STEPS_PER_GENERATION}; the variant
\* changes only from SimulatingGeneration to Evolving{STEPS_PER_EVOLUTION} and from
\* Evolving to SimulatingGeneration{STEPS_PER_GENERATION}, each when the countdown
\* is at its last step, and the generation is replaced (by simulations of creatures
\* with fresh ids, not yet stepped) in exactly the steps of the second kind.
C1_Step ==
    LET toEvolving == state.variant = "SimulatingGeneration" /\ state'.variant = "Evolving"
        toSimulating == state.variant = "Evolving" /\ state'.variant = "SimulatingGeneration"
        replaced == Ids(current_generation') # Ids(current_generation)
    IN /\ state'.variant # state.variant => toEvolving \/ toSimulating
       /\ toEvolving <=> state.variant = "SimulatingGeneration" /\ state.steps_left = 1
                         /\ state' # state
       /\ toEvolving => state' = Evolving(STEPS_PER_EVOLUTION)
       /\ toSimulating <=> state.variant = "Evolving" /\ state.steps_left = 1
                           /\ state' # state
       /\ toSimulating => state' = Simulating(STEPS_PER_GENERATION)
       /\ replaced <=> toSimulating
       /\ toSimulating =>
             /\ Ids(current_generation') \cap Ids(current_generation) = {}
             /\ \A i \in 1..Len(current_generation') :
                   /\ current_generation'[i].creature.id >= next_uuid
                   /\ current_generation'[i].steps = 0
             /\ on_generation' = on_generation + 1

C1_StateMachine ==
    /\ state = Simulating(STEPS_PER_GENERATION)
    /\ [][C1_Step]_vars

C1_Witness ==
    /\ on_generation = 2
    /\ state = Simulating(STEPS_PER_GENERATION)
    /\ \A i \in 1..Len(current_generation) : current_generation[i].creature.parent # 0

\* C2: when the Evolver is in Evolving, every simulation of the current generation
\* has been stepped exactly STEPS_PER_GENERATION times.
C2_SteppedWholePhase ==
    state.variant = "Evolving" =>
        \A i \in 1..Len(current_generation) :
            current_generation[i].steps = STEPS_PER_GENERATION

\* C4: a call of run performs floor((elapsed + carried remainder) / STEPS_FREQUENCY)
\* steps and leaves a remainder below STEPS_FREQUENCY.
C4_WholeTicks ==
    pc = "idle" =>
        /\ call.steps = call.total \div STEPS_FREQUENCY
        /\ time_left_over < STEPS_FREQUENCY

\* C10: between calls of run all simulations of the current generation have the
\* same step counter, and while simulating it is STEPS_PER_GENERATION - steps_left.
C10_LockStep ==
    pc = "idle" =>
        /\ \A i, j \in 1..Len(current_generation) :
              current_generation[i].steps = current_generation[j].steps
        /\ state.variant = "SimulatingGeneration" =>
              \A i \in 1..Len(current_generation) :
                  current_generation[i].steps = STEPS_PER_GENERATION - state.steps_left

C10_Witness ==
    /\ pc = "idle"
    /\ state.variant = "SimulatingGeneration"
    /\ state.steps_left < STEPS_PER_GENERATION - 1
    /\ on_generation = 2

\* C5: when a next generation is produced from a finished one, the parents of its
\* creatures are SIMULATIONS_PER_GENERATION / OFFSPRING_PER_CREATURE simulations of
\* the finished generation, none of them scoring below a simulation that is not a
\* parent, and each of them has exactly OFFSPRING_PER_CREATURE offspring.
C5_Step ==
    on_generation' = on_generation + 1 =>
        LET old == current_generation
            new == current_generation'
            parents == {i \in 1..Len(old) :
                          \E k \in 1..Len(new) : new[k].creature.parent = old[i].creature.id}
            children(i) == {k \in 1..Len(new) : new[k].creature.parent = old[i].creature.id}
        IN /\ \A k \in 1..Len(new) : new[k].creature.parent \in Ids(old)
           /\ Cardinality(parents) = SIMULATIONS_PER_GENERATION \div OFFSPRING_PER_CREATURE
           /\ \A i \in parents : Cardinality(children(i)) = OFFSPRING_PER_CREATURE
           /\ \A i \in parents : \A j \in (1..Len(old)) \ parents :
                 get_score(old[i]) >= get_score(old[j])

C5_Selection == [][C5_Step]_vars

\* a generation bred from the second simulation of a finished generation, which
\* scored above the first
C5_Witness ==
    /\ on_generation = 2
    /\ generation_scores[1][1] > generation_scores[1][Len(generation_scores[1])]
    /\ \A k \in 1..Len(current_generation) :
          current_generation[k].creature.parent = 2

\* C9: the generation number is 1 + (steps so far) div (STEPS_PER_GENERATION +
\* STEPS_PER_EVOLUTION), the thread never panics, and as long as run keeps being
\* called with elapsed time every generation is followed by the next.
C9_Progress ==
    /\ [](/\ pc \in {"idle", "run"}
          /\ on_generation = base.on_generation
                 + ticks \div (STEPS_PER_GENERATION + STEPS_PER_EVOLUTION))
    /\ \A g \in 1..(MaxGeneration - 1) : (on_generation = g) ~> (on_generation = g + 1)

C9_Witness ==
    /\ on_generation = MaxGeneration
    /\ ticks = (MaxGeneration - 1) * (STEPS_PER_GENERATION + STEPS_PER_EVOLUTION)

\* C3: whatever calls of run the elapsed time was split into, the Evolver is where
\* one call of run with the total elapsed time would have brought it from the same
\* state: same number of steps, same remainder, same variant, same steps_left and
\* same generation number.
C3_TimeSlicing ==
    pc = "idle" =>
        /\ Clock(state, on_generation, time_left_over) = RunOnce(base, sum).clock
        /\ ticks = RunOnce(base, sum).steps

\* the time was handed over in several calls, more than one of which made steps
C3_Witness ==
    /\ pc = "idle"
    /\ sum = MaxTotal
    /\ call.steps > 0
    /\ ticks > call.steps
    /\ base.time_left_over > 0

\* C6: a NaN coordinate in a simulation of the finished generation never makes
\* generate_next_generation fail: the sort by score is total, the call completes
\* with a new generation, and the thread does not terminate fatally.
C6_NaNTolerated ==
    [][(pc = "run" /\ Generates(state) /\ ticks' = ticks + 1)
          => (pc' = "run" /\ on_generation' = on_generation + 1)]_vars

\* the functions between two finite sets that are one-to-one and onto
Bijections(S, T) ==
    {f \in [S -> T] : /\ \A t \in T : \E x \in S : f[x] = t
                      /\ \A x, y \in S : f[x] = f[y] => x = y}

\* C7: what mutate(C) returns is an isomorphic copy of C under fresh identities:
\* as many nodes and as many linkages as C has, a bijection between the nodes that
\* keeps position and size, every linkage of C mapped to one linkage that joins the
\* images of its ends, and no id (creature, node, linkage) shared with C or with
\* what another call of mutate(C) returned.
C7_IsomorphicCopy ==
    offspring.id # NoId =>
        /\ Cardinality(DOMAIN offspring.nodes) = Cardinality(DOMAIN parent_creature.nodes)
        /\ Cardinality(DOMAIN offspring.muscles)
              = Cardinality(DOMAIN parent_creature.muscles)
        /\ \E f \in Bijections(DOMAIN parent_creature.nodes, DOMAIN offspring.nodes) :
              /\ \A n \in DOMAIN parent_creature.nodes :
                    /\ offspring.nodes[f[n]].position = parent_creature.nodes[n].position
                    /\ offspring.nodes[f[n]].size = parent_creature.nodes[n].size
              /\ \E g \in Bijections(DOMAIN parent_creature.muscles,
                                     DOMAIN offspring.muscles) :
                    \A m \in DOMAIN parent_creature.muscles :
                        /\ offspring.muscles[g[m]].from_id
                              = f[parent_creature.muscles[m].from_id]
                        /\ offspring.muscles[g[m]].to_id
                              = f[parent_creature.muscles[m].to_id]
        /\ Cardinality(AllIds(offspring))
              = 1 + Cardinality(DOMAIN offspring.nodes)
                  + Cardinality(DOMAIN offspring.muscles)
        /\ AllIds(offspring) \cap AllIds(parent_creature) = {}
        /\ AllIds(offspring) \cap sibling_ids = {}

\* a creature of two nodes or more joined by a linkage has been mutated twice
C7_Witness ==
    /\ offspring.id # NoId
    /\ Cardinality(DOMAIN parent_creature.nodes) >= 2
    /\ \E m \in DOMAIN parent_creature.muscles :
          parent_creature.muscles[m].from_id # parent_creature.muscles[m].to_id
    /\ sibling_ids # {}

\* C8: in every Creature that build returned, whatever builder operations came
\* before, the keys of movement_parameters are the keys of muscles.
C8_ScheduleCoverage ==
    creature.id # NoId => DOMAIN creature.movement_parameters = DOMAIN creature.muscles

\* the largest of position.y + size / 2 over the nodes of a builder (y grows downward)
LowestExtent(b) ==
    CHOOSE e \in {b.nodes[id].position.y + b.nodes[id].size \div 2 : id \in DOMAIN b.nodes} :
        \A id \in DOMAIN b.nodes : b.nodes[id].position.y + b.nodes[id].size \div 2 <= e

\* C11: after translate_bottom_center_to(target) on a builder with a node, the lowest
\* extent of the creature, node sizes counted, is target.y and the horizontal centre
\* of its bounds is target.x (the target being the spawn point of the Evolver).
C11_FeetAtTarget ==
    [][(/\ builder.id # NoId
        /\ DOMAIN builder.nodes # {}
        /\ builder'.id = builder.id
        /\ builder'.nodes = translate_bottom_center_to(builder,
                                Position(WORLD_X_SIZE \div 2, FLOOR_TOP_Y)).nodes)
          => (/\ LowestExtent(builder') = FLOOR_TOP_Y
              /\ (builder_get_bounds(builder')[1] + builder_get_bounds(builder')[3]) \div 2
                    = WORLD_X_SIZE \div 2)]_vars

----------------------------------------------------------------------------
(* Properties of the colors, the schedule and the Simulation *)

\* the distance of two hues on the circle of HUE_MODULUS hues
CircularDistance(a, b) ==
    LET d == (a - b) % HUE_MODULUS
    IN IF d <= HUE_MODULUS - d THEN d ELSE HUE_MODULUS - d

\* C12: for every parent hue in 0..359 and every delta in -10..10 the hue after
\* CreatureColors::mutate is (hue + delta) mod 360, the mathematical modulo: it is
\* in 0..359 and at most 10 away from the parent hue on the circle.
C12_HueWraps ==
    (calc.op = "CreatureColors::mutate" /\ calc.done) =>
        /\ calc.new_hue = (calc.hue + calc.delta) % HUE_MODULUS
        /\ calc.new_hue \in 0..(HUE_MODULUS - 1)
        /\ CircularDistance(calc.hue, calc.new_hue) <= MUTATE_COLOR_HUE_MAX

\* C13: for every step count t and every schedule whose parameters lie in the
\* generation ranges, get_extension_at(t) lies between 0 and 1, and at t = 0 and
\* at every t before the offset of the schedule it is exactly 0.5.
C13_ExtensionInUnitInterval ==
    calc.op = "MovementParameters::get_extension_at" =>
        /\ calc.extension.den > 0
        /\ FracLe(Frac(0, 1), calc.extension)
        /\ FracLe(calc.extension, Frac(1, 1))
        /\ (calc.step = 0 \/ calc.step < calc.parameters.offset)
              => FracEq(calc.extension, Frac(1, 2))

\* a schedule past its offset, in its second cycle, at its lowest point
C13_Witness ==
    /\ calc.op = "MovementParameters::get_extension_at"
    /\ calc.step >= calc.parameters.offset + TotalPeriod(calc.parameters)
    /\ calc.parameters.offset > 0
    /\ FracEq(calc.extension, Frac(0, 1))

\* C14: the waveform is the two-phase triangle of period T = extension_period +
\* contraction_period: with d = t mod T the fraction rises for d < extension_period
\* (from 0.5 in the first period, from 0 in the later ones) to reach 1 at
\* d = extension_period, and afterwards falls linearly from 1 toward 0 over
\* contraction_period steps.
C14_TwoPhaseTriangle ==
    calc.op = "MovementParameters::get_extension_at" =>
        LET e == calc.parameters.extension_period
            c == calc.parameters.contraction_period
            d == calc.step % (e + c)
        IN /\ (d < e /\ calc.step < e + c) => FracEq(calc.extension, Frac(e + d, 2 * e))
           /\ (d < e /\ calc.step >= e + c) => FracEq(calc.extension, Frac(d, e))
           /\ d >= e => FracEq(calc.extension, Frac(c - (d - e), c))

\* the eight duration fields of a MovementParameters
Durations(mp) ==
    <<mp.extension_period, mp.extension_sleep_period, mp.extension_return_period,
      mp.extension_return_sleep_period, mp.contraction_period,
      mp.contraction_sleep_period, mp.contraction_return_period,
      mp.contraction_return_sleep_period>>

\* C15: every duration field of every MovementParameters produced by
\* generate_for_muscles_and_nodes is at least 1 and within its declared range, so
\* the total period is positive and no phase has zero length.
C15_DurationsPositive ==
    calc.op = "MovementParameters" =>
        /\ \A i \in 1..Len(Durations(calc.parameters)) :
              /\ Durations(calc.parameters)[i] >= 1
              /\ Durations(calc.parameters)[i] \in
                    (IF i % 2 = 1 THEN PERIOD_RANGE ELSE SLEEP_PERIOD_RANGE)
        /\ TotalPeriod(calc.parameters) > 0

\* C15, amended: every movement period (extension, extension return, contraction,
\* contraction return) produced by generate_for_muscles_and_nodes is at least 1 and
\* within its declared range, every sleep period is at least 0 and within its
\* declared range, and the total period is positive.
C15_PeriodsPositive ==
    calc.op = "MovementParameters" =>
        /\ \A i \in 1..Len(Durations(calc.parameters)) :
              IF i % 2 = 1
              THEN /\ Durations(calc.parameters)[i] >= 1
                   /\ Durations(calc.parameters)[i] \in PERIOD_RANGE
              ELSE /\ Durations(calc.parameters)[i] >= 0
                   /\ Durations(calc.parameters)[i] \in SLEEP_PERIOD_RANGE
        /\ TotalPeriod(calc.parameters) > 0

\* a generated schedule whose sleep phases all have zero length
C15_Witness ==
    /\ calc.op = "MovementParameters"
    /\ \A i \in 1..Len(Durations(calc.parameters)) :
          i % 2 = 0 => Durations(calc.parameters)[i] = 0

\* the step at which phase i of a cycle ends, counted from the start of the cycle
PhaseEnd(mp, i) ==
    LET RECURSIVE SumTo(_)
        SumTo(k) == IF k = 0 THEN 0 ELSE SumTo(k - 1) + Durations(mp)[k]
    IN SumTo(i)

\* C14, amended: the waveform is the eight-phase cycle of period T = the sum of the
\* eight periods, started at the offset: before the offset the fraction is 0.5;
\* with d = (t - offset) mod T it rises linearly from 0.5 to 1 over
\* extension_period steps, stays 1 for extension_sleep_period steps, falls linearly
\* from 1 to 0.5 over extension_return_period steps, stays 0.5 for
\* extension_return_sleep_period steps, falls linearly from 0.5 to 0 over
\* contraction_period steps, stays 0 for contraction_sleep_period steps, rises
\* linearly from 0 to 0.5 over contraction_return_period steps and stays 0.5 for
\* contraction_return_sleep_period steps.
C14_EightPhaseCycle ==
    calc.op = "MovementParameters::get_extension_at" =>
        LET mp == calc.parameters
            v == calc.extension
            d == (calc.step - mp.offset) % TotalPeriod(mp)
            In(i) == PhaseEnd(mp, i - 1) <= d /\ d < PhaseEnd(mp, i)
            since(i) == d - PhaseEnd(mp, i - 1)
        IN IF calc.step < mp.offset THEN FracEq(v, Frac(1, 2))
           ELSE /\ In(1) => FracEq(v, Frac(Durations(mp)[1] + since(1), 2 * Durations(mp)[1]))
                /\ In(2) => FracEq(v, Frac(1, 1))
                /\ In(3) => FracEq(v, Frac(2 * Durations(mp)[3] - since(3), 2 * Durations(mp)[3]))
                /\ In(4) => FracEq(v, Frac(1, 2))
                /\ In(5) => FracEq(v, Frac(Durations(mp)[5] - since(5), 2 * Durations(mp)[5]))
                /\ In(6) => FracEq(v, Frac(0, 1))
                /\ In(7) => FracEq(v, Frac(since(7), 2 * Durations(mp)[7]))
                /\ In(8) => FracEq(v, Frac(1, 2))

\* a schedule in the second half of its extension return, below 1 and above 0.5
C14_Witness ==
    /\ calc.op = "MovementParameters::get_extension_at"
    /\ calc.step >= calc.parameters.offset
    /\ LET mp == calc.parameters
           d == (calc.step - mp.offset) % TotalPeriod(mp)
       IN /\ PhaseEnd(mp, 2) < d
          /\ d < PhaseEnd(mp, 3)
          /\ mp.extension_sleep_period > 0
    /\ ~FracLe(calc.extension, Frac(1, 2))
    /\ ~FracLe(Frac(1, 1), calc.extension)

\* the largest x over the centres of the node bodies
RightmostX(bodies) ==
    CHOOSE x \in {bodies[i].x : i \in DOMAIN bodies} :
        \A i \in DOMAIN bodies : bodies[i].x <= x

\* C16: get_score() is (the largest x over the centres of the node bodies -
\* WORLD_X_SIZE / 2) * SCORE_SCALE_FACTOR: it is 0 when the rightmost node is on the
\* spawn line and strictly larger for a rightmost node further right; score_to_x
\* and x_to_score are inverse to each other.
C16_Score ==
    /\ calc.op = "Simulation::get_score" =>
          /\ calc.score = (RightmostX(simulation.bodies) - WORLD_X_SIZE \div 2) * SCORE_PER_SCREEN
          /\ RightmostX(simulation.bodies) = WORLD_X_SIZE \div 2 => calc.score = 0
          /\ \A bodies \in ScoreBodies :
                RightmostX(bodies) > RightmostX(simulation.bodies)
                   => get_score(SimulationNew(NoCreature, bodies)) > calc.score
    /\ calc.op = "Simulation::x_to_score" => score_to_x(calc.score) = calc.x
    /\ calc.op = "Simulation::score_to_x" => x_to_score(calc.x) = calc.score

\* the score of a creature whose rightmost node is on the spawn line, the other
\* node to the left of it
C16_Witness ==
    /\ calc.op = "Simulation::get_score"
    /\ simulation.bodies[1].x = WORLD_X_SIZE \div 2
    /\ simulation.bodies[NumBodies].x < WORLD_X_SIZE \div 2
    /\ calc.score = 0

\* the least and the greatest element of a set of numbers
Least(S) == CHOOSE m \in S : \A k \in S : m <= k
Greatest(S) == CHOOSE m \in S : \A k \in S : k <= m

\* the positions of the nodes of a creature
NodePositions(c) == {c.nodes[id].position : id \in DOMAIN c.nodes}

\* C17: immediately after Simulation::new(creature) and before any step, the step
\* counter is 0, get_position_of_node(id) is the position of node id of the creature
\* for every node, and get_bounds() is (componentwise minimum, componentwise
\* maximum) over all node positions; for nodes at (1,2), (2,1), (5,5) it is
\* ((1,1),(5,5)).
C17_FreshSimulation ==
    [][/\ (simulation.creature.id = NoId /\ simulation'.creature.id # NoId)
             => simulation'.steps = 0
       /\ (/\ simulation.creature.id # NoId
           /\ simulation.steps = 0
           /\ calc.op = "none"
           /\ calc'.op = "Simulation::get_position_of_node")
             => calc'.position = simulation.creature.nodes[calc'.id].position
       /\ (/\ simulation.creature.id # NoId
           /\ simulation.steps = 0
           /\ calc.op = "none"
           /\ calc'.op = "Simulation::get_bounds")
             => LET ps == NodePositions(simulation.creature)
                IN /\ calc'.bounds = <<Least({p.x : p \in ps}), Least({p.y : p \in ps}),
                                       Greatest({p.x : p \in ps}), Greatest({p.y : p \in ps})>>
                   /\ ps = {Position(1, 2), Position(2, 1), Position(5, 5)}
                         => calc'.bounds = <<1, 1, 5, 5>>]_vars

\* the bounds of the fresh simulation of a creature with nodes at (1,2), (2,1), (5,5)
\* and a muscle
C17_Witness ==
    /\ simulation.steps = 0
    /\ NodePositions(simulation.creature) = {Position(1, 2), Position(2, 1), Position(5, 5)}
    /\ DOMAIN simulation.creature.muscles # {}
    /\ calc.op = "Simulation::get_bounds"
    /\ calc.bounds = <<1, 1, 5, 5>>

\* a muscle of c whose from_id or to_id is not a node of c
Dangling(c) ==
    \E id \in DOMAIN c.muscles :
        c.muscles[id].from_id \notin DOMAIN c.nodes \/ c.muscles[id].to_id \notin DOMAIN c.nodes

\* C19: invariant violations never produce a value: get_position_of_node returns
\* no position for an id that is not a node of the simulated creature; get_bounds,
\* get_text_position and get_score return nothing for a simulation whose creature
\* has zero nodes; build returns no Creature and Simulation::new no Simulation for
\* a creature with a muscle whose from_id or to_id is not among its nodes.
C19_ViolationsAreFatal ==
    /\ calc.op = "Simulation::get_position_of_node"
          => calc.id \in DOMAIN simulation.creature.nodes
    /\ calc.op \in {"Simulation::get_bounds", "Simulation::get_text_position",
                    "Simulation::get_score"}
          => DOMAIN simulation.creature.nodes # {}
    /\ creature.id # NoId => ~Dangling(creature)
    /\ simulation.creature.id # NoId => ~Dangling(simulation.creature)

\* C20: build preserves exactly what was added: after any sequence of add_node and
\* add_muscle calls (their ids distinct) the nodes() of the built Creature are
\* exactly the added nodes, each under its id with its position and size, and its
\* muscles() are exactly the added muscles, each under its id with its from_id and
\* to_id.
C20_BuildPreserves ==
    creature.id # NoId =>
        /\ DOMAIN creature.nodes = {node.id : node \in added.nodes}
        /\ \A node \in added.nodes :
              /\ creature.nodes[node.id].position = node.position
              /\ creature.nodes[node.id].size = node.size
        /\ DOMAIN creature.muscles = {muscle.id : muscle \in added.muscles}
        /\ \A muscle \in added.muscles :
              /\ creature.muscles[muscle.id].from_id = muscle.from_id
              /\ creature.muscles[muscle.id].to_id = muscle.to_id

\* a built Creature of two nodes and a muscle between them
C20_Witness ==
    /\ creature.id # NoId
    /\ Cardinality(added.nodes) = MaxNodes
    /\ \E muscle \in added.muscles :
          /\ muscle.from_id \in DOMAIN creature.nodes
          /\ muscle.to_id \in DOMAIN creature.nodes
          /\ muscle.from_id # muscle.to_id

\* (a.x - b.x)^2 + (a.y - b.y)^2
SquaredNorm(a, b) == (a.x - b.x) * (a.x - b.x) + (a.y - b.y) * (a.y - b.y)

\* C21: a.distance_to(b) is the Euclidean norm of a - b, the square root of
\* (a.x - b.x)^2 + (a.y - b.y)^2 (to the unit of the model, and exactly where that
\* sum is a square): it is symmetric, non-negative, zero when a = b, and 5 for
\* (3,0) and (0,4).
C21_EuclideanNorm ==
    calc.op = "Position::distance_to" =>
        /\ calc.distance * calc.distance <= SquaredNorm(calc.a, calc.b)
        /\ SquaredNorm(calc.a, calc.b) < (calc.distance + 1) * (calc.distance + 1)
        /\ (\E r \in 0..(2 * MaxDistanceCoord) : r * r = SquaredNorm(calc.a, calc.b))
              => calc.distance * calc.distance = SquaredNorm(calc.a, calc.b)
        /\ calc.distance = distance_to(calc.b, calc.a)
        /\ calc.distance >= 0
        /\ calc.a = calc.b => calc.distance = 0
        /\ (calc.a = Position(3, 0) /\ calc.b = Position(0, 4)) => calc.distance = 5

\* the distance of (3,0) and (0,4)
C21_Witness ==
    /\ calc.op = "Position::distance_to"
    /\ calc.a = Position(3, 0)
    /\ calc.b = Position(0, 4)
    /\ calc.distance = 5

\* C22: in CreatureBuilder::random exactly one connection draw is made for every
\* unordered pair of distinct nodes: a pair tested in one orientation, whether or
\* not the draw added a muscle, is never tested in the other orientation.
C22_OneDrawPerPair ==
    calc.op = "CreatureBuilder::random" =>
        \A a, b \in 1..calc.n :
            a < b => Cardinality({i \in DOMAIN calc.draws :
                                     calc.draws[i] \in {<<a, b>>, <<b, a>>}}) = 1

\* C23: within each Simulation::step the motor target of every tracked joint is
\* set from the step counter before its increment, then the pipeline is advanced,
\* then the counter is incremented by exactly one: the k-th call of step solves
\* with targets computed for step count k - 1, and after n calls the counter is n.
C23_StepOrder ==
    [][(simulation.creature.id # NoId /\ simulation' # simulation)
          => /\ simulation'.steps = simulation.steps + 1
             /\ DOMAIN simulation'.motors = DOMAIN simulation.creature.muscles
             /\ \A id \in DOMAIN simulation'.motors :
                   /\ simulation'.motors[id] = simulation.steps
                   /\ simulation'.motors[id] = simulation'.steps - 1]_vars

\* the second call of step on a creature with a muscle: targets for step count 1
C23_Witness ==
    /\ simulation.steps = 2
    /\ \E id \in DOMAIN simulation.creature.muscles : simulation.motors[id] = 1

\* the membership/filter rule: two colliders interact iff the memberships of each
\* intersect the filter of the other
Interact(a, b) == a.memberships \cap b.filter # {} /\ b.memberships \cap a.filter # {}

\* C24: in every built Simulation every node collider interacts with the floor
\* collider, no node collider interacts with another node collider, and no
\* collider of a rotation body interacts with any collider.
C24_CollisionFiltering ==
    simulation.creature.id # NoId =>
        \A a, b \in collider_set(simulation.creature) :
            a # b =>
               /\ (a.kind = "node" /\ b.kind = "floor") => (Interact(a, b) /\ Interact(b, a))
               /\ (a.kind = "node" /\ b.kind = "node") => ~Interact(a, b)
               /\ a.kind \in {"rotate_from", "rotate_to"} => (~Interact(a, b) /\ ~Interact(b, a))

\* a Simulation of three nodes and a muscle between two of them
C24_Witness ==
    /\ simulation.creature.id # NoId
    /\ Cardinality({a \in collider_set(simulation.creature) : a.kind = "node"}) = MaxSimNodes
    /\ Cardinality({a \in collider_set(simulation.creature) :
                       a.kind \in {"rotate_from", "rotate_to"}}) = 2

\* the simulations of gen stepped one at a time in the given order
RECURSIVE StepInOrder(_, _, _, _)
StepInOrder(gen, order, moved, k) ==
    IF k > Len(gen) THEN gen
    ELSE StepInOrder(StepOne(gen, order[k], moved[order[k]]), order, moved, k + 1)

C26_GenerationSize == Len(current_generation) = SIMULATIONS_PER_GENERATION

\* the third generation, between calls of run
C26_Witness ==
    /\ pc = "idle"
    /\ on_generation = MaxGeneration
    /\ Len(current_generation) = SIMULATIONS_PER_GENERATION

\* C27: while the Evolver is in the Evolving state no simulation is stepped: every
\* step taken in Evolving that does not transition back leaves current_generation
\* (membership, order, step counters, node positions, scores) unchanged, and the
\* step that transitions back records the scores the simulations had then.
C27_EvolvingFrame ==
    [][/\ (state.variant = "Evolving" /\ state'.variant = "Evolving")
             => current_generation' = current_generation
       /\ (state.variant = "Evolving" /\ on_generation' = on_generation + 1)
             => LET old_scores == generation_scores'[Len(generation_scores')]
                IN /\ Len(old_scores) = Len(current_generation)
                   /\ \A x \in {old_scores[i] : i \in 1..Len(old_scores)}
                               \cup {get_score(current_generation[i]) :
                                        i \in 1..Len(current_generation)} :
                         Cardinality({i \in 1..Len(old_scores) : old_scores[i] = x})
                            = Cardinality({i \in 1..Len(current_generation) :
                                              get_score(current_generation[i]) = x})]_vars

\* a step inside the evolving phase of a generation whose simulations have moved
C27_Witness ==
    /\ state.variant = "Evolving"
    /\ state.steps_left < STEPS_PER_EVOLUTION
    /\ pc = "run"
    /\ \E i \in 1..Len(current_generation) :
          get_score(current_generation[i]) # 0

\* the entries of a sequence of scores do not increase
NonIncreasing(scores) ==
    \A i, j \in 1..Len(scores) : i < j => scores[i] >= scores[j]

\* C28: on_generation is 1 after Evolver::new and increases by exactly 1 at each
\* transition from Evolving to SimulatingGeneration, and at no other step; in every
\* reachable state generation_scores has on_generation - 1 entries, each holding
\* the SIMULATIONS_PER_GENERATION scores of one finished generation in
\* non-increasing order.
C28_ScoreHistory ==
    /\ [](/\ on_generation >= 1
          /\ Len(generation_scores) = on_generation - 1
          /\ \A g \in 1..Len(generation_scores) :
                /\ Len(generation_scores[g]) = SIMULATIONS_PER_GENERATION
                /\ NonIncreasing(generation_scores[g]))
    /\ [][IF state.variant = "Evolving" /\ state'.variant = "SimulatingGeneration"
          THEN on_generation' = on_generation + 1
          ELSE on_generation' = on_generation]_vars

\* two finished generations, the scores of the first not all equal
C28_Witness ==
    /\ on_generation = 3
    /\ Len(generation_scores) = 2
    /\ generation_scores[1][1] > generation_scores[1][SIMULATIONS_PER_GENERATION]

\* C29: for every tracked linkage and every step count, the motor target position
\* set by step_muscles lies within that joint's travel limits
\* [muscle_length * MUSCLE_LIMIT_FLUX * MAX_MUSCLE_CONTRACTION,
\*  muscle_length * MUSCLE_LIMIT_FLUX * MAX_MUSCLE_EXTENSION], and every joint it
\* touches is a prismatic joint: revolute joints are never in the tracked map.
C29_TargetWithinLimits ==
    calc.op = "Simulation::step_muscles"
        => /\ \A h \in DOMAIN calc.motors :
                 /\ calc.joints[h].kind = "prismatic"
                 /\ ~calc.motors[h].panics
                 /\ FracLe(calc.limits.lo, calc.motors[h].target)
                 /\ FracLe(calc.motors[h].target, calc.limits.hi)
           /\ \A h \in DOMAIN calc.joints :
                 calc.joints[h].kind = "revolute" => h \notin DOMAIN calc.motors

\* a muscle of the greatest length fully extended: the target is half its length
C29_Witness ==
    /\ calc.op = "Simulation::step_muscles"
    /\ calc.muscle_length = MaxMuscleLength
    /\ DOMAIN calc.motors = {"joint"}
    /\ FracEq(calc.motors["joint"].target, Frac(MaxMuscleLength, 2))
    /\ ~FracEq(calc.motors["joint"].target, calc.limits.hi)

\* C30: every creature produced by CreatureBuilder::random is a simple graph on at
\* least BASE_RANDOM_NODES nodes: no linkage has from_id = to_id, no two linkages
\* join the same unordered pair of nodes (in either orientation), and every linkage
\* endpoint is a node of the creature.
C30_SimpleGraph ==
    [][(builder.id = NoId /\ creature.id = NoId /\ DOMAIN builder'.nodes # {})
          => /\ Cardinality(DOMAIN builder'.nodes) >= BASE_RANDOM_NODES
             /\ \A m \in DOMAIN builder'.muscles :
                   /\ builder'.muscles[m].from_id # builder'.muscles[m].to_id
                   /\ builder'.muscles[m].from_id \in DOMAIN builder'.nodes
                   /\ builder'.muscles[m].to_id \in DOMAIN builder'.nodes
             /\ \A m1, m2 \in DOMAIN builder'.muscles :
                   {builder'.muscles[m1].from_id, builder'.muscles[m1].to_id}
                         = {builder'.muscles[m2].from_id, builder'.muscles[m2].to_id}
                      => m1 = m2]_vars

\* the builder random returns with every pair of its nodes joined, one of the
\* linkages the other way round
C30_Witness ==
    /\ creature.id = NoId
    /\ builder.id # NoId
    /\ ~builder.movement_parameters.some
    /\ Cardinality(DOMAIN builder.nodes) = BASE_RANDOM_NODES
    /\ Cardinality(DOMAIN builder.muscles)
          = (BASE_RANDOM_NODES * (BASE_RANDOM_NODES - 1)) \div 2
    /\ \E m \in DOMAIN builder.muscles :
          builder.muscles[m].from_id > builder.muscles[m].to_id
    /\ \A m1, m2 \in DOMAIN builder.muscles :
          {builder.muscles[m1].from_id, builder.muscles[m1].to_id}
                = {builder.muscles[m2].from_id, builder.muscles[m2].to_id}
             => m1 = m2

====
